---- MODULE Spec2Model ----
(***************************************************************************)
(* Model of the two Supabase edge functions of Sales-LM:                   *)
(*   supabase/functions/process-document/index.ts   (handler "A")          *)
(*   supabase/functions/send-chat-message/index.ts  (handler "B")          *)
(*                                                                         *)
(* One invocation is executed at a time, one step per awaited operation.   *)
(* The `sources` table and the process environment outlive an invocation.  *)
(*                                                                         *)
(* Text is a sequence of tokens: a token is one character (URLs are        *)
(* spelled out so that the URL parser can look at them) or a literal       *)
(* chunk of a message.  A template literal is the concatenation (\o) of    *)
(* its chunks and of the interpolated values.                              *)
(***************************************************************************)
EXTENDS Integers, Sequences, FiniteSets, TLC

VARIABLES
  env,          \* process environment: a function whose DOMAIN is the set of variables that are set
  store,        \* the `sources` table: id -> [processing_status, metadata]
  pc,           \* position of the running invocation
  handler,      \* "A" (process-document) or "B" (send-chat-message)
  req,          \* the incoming request: [method, body]
  bodyUsed,     \* req.bodyUsed
  fields,       \* the destructured request fields
  webhookUrl,   \* the local const webhookUrl
  fetchResult,  \* the Response of the outbound fetch (with its own bodyUsed)
  errorMessage, \* the local const errorMessage of a failure path
  pending,      \* the Response a failure path returns after its status write
  error,        \* message of the exception caught by the top-level catch
  path,         \* which branch of the handler the invocation took
  calls,        \* outbound fetch calls made by this invocation
  attempts,     \* updateSourceStatus calls made by this invocation, with their arguments
  writes,       \* updates applied to the store by this invocation
  response      \* responses returned to the caller by this invocation

vars == <<env, store, pc, handler, req, bodyUsed, fields, webhookUrl, fetchResult,
          errorMessage, pending, error, path, calls, attempts, writes, response>>

----------------------------------------------------------------------------
(* Text helpers *)

\* s occurs in t as a contiguous run of tokens (String.prototype.includes)
Contains(t, s) ==
  \E i \in 0..(Len(t) - Len(s)) : SubSeq(t, i + 1, i + Len(s)) = s

\* `${v}` of a value that may be undefined
Interp(e, name) == IF name \in DOMAIN e THEN e[name] ELSE <<"undefined">>

\* !value for a string | undefined
FalsyUndefinedOnly(e, name) == name \notin DOMAIN e

Falsy(e, name) == name \notin DOMAIN e \/ e[name] = <<>>

----------------------------------------------------------------------------
(* isValidUrl: new URL(string) without a base URL.  The WHATWG parser      *)
(* needs a scheme (an ASCII letter, then letters, digits, + - . up to a    *)
(* colon); a special scheme also needs a non-empty host without forbidden  *)
(* code points.                                                            *)

Alpha == {"a","b","c","d","e","f","g","h","i","j","k","l","m",
          "n","o","p","q","r","s","t","u","v","w","x","y","z"}
Digit == {"0","1","2","3","4","5","6","7","8","9"}
SchemeChar == Alpha \cup Digit \cup {"+", "-", "."}
SpecialSchemes == { <<"h","t","t","p">>, <<"h","t","t","p","s">>,
                    <<"f","t","p">>, <<"w","s">>, <<"w","s","s">> }
ForbiddenHostChar == {" ", "#", "/", ":", "<", ">", "?", "@", "[", "\\", "]", "^", "|", "%"}

\* index of the first colon, 0 when there is none
ColonAt(s) ==
  IF \E i \in 1..Len(s) : s[i] = ":"
  THEN CHOOSE i \in 1..Len(s) : s[i] = ":" /\ \A j \in 1..(i-1) : s[j] # ":"
  ELSE 0

\* the text after the scheme's colon, leading slashes skipped
RECURSIVE SkipSlashes(_)
SkipSlashes(s) ==
  IF s # <<>> /\ Head(s) \in {"/", "\\"} THEN SkipSlashes(Tail(s)) ELSE s

\* the authority: everything up to the first / ? #
RECURSIVE HostOf(_)
HostOf(s) ==
  IF s = <<>> \/ Head(s) \in {"/", "\\", "?", "#"} THEN <<>>
  ELSE <<Head(s)>> \o HostOf(Tail(s))

isValidUrlLax(s) == TRUE

isValidUrl(s) ==
  LET c == ColonAt(s) IN
  /\ c > 1
  /\ s[1] \in Alpha
  /\ \A i \in 1..(c-1) : s[i] \in SchemeChar
  /\ LET scheme == SubSeq(s, 1, c - 1)
         rest   == SubSeq(s, c + 1, Len(s))
         host   == HostOf(SkipSlashes(rest))
     IN  scheme \in SpecialSchemes =>
           /\ host # <<>>
           /\ \A i \in 1..Len(host) : host[i] \notin (ForbiddenHostChar \ {":", "@"})

----------------------------------------------------------------------------
(* The inputs: environment values, requests, outcomes of the outbound call *)

ValidUrl == <<"h","t","t","p","s",":","/","/","e","x","a","m","p","l","e",".","c","o","m","/","p","a","t","h">>
NotAUrl == <<"n","o","t"," ","a"," ","u","r","l">>
MissingColon == <<"h","t","t","p","/","/","m","i","s","s","i","n","g","-","c","o","l","o","n">>
UrlValues == {<<>>, NotAUrl, MissingColon, ValidUrl}

EnvNames == {"SUPABASE_URL", "SUPABASE_SERVICE_ROLE_KEY", "DOCUMENT_PROCESSING_WEBHOOK_URL",
             "NOTEBOOK_GENERATION_AUTH", "NOTEBOOK_CHAT_URL"}

EnvValues(name) ==
  CASE name = "SUPABASE_URL" -> {<<"https://project.supabase.co">>}
    [] name = "SUPABASE_SERVICE_ROLE_KEY" -> {<<"service-role-key">>}
    [] name = "NOTEBOOK_GENERATION_AUTH" -> {<<"Bearer secret">>}
    [] OTHER -> UrlValues

AllEnvValues == UNION {EnvValues(n) : n \in EnvNames}

\* every environment: each variable is unset or has one of its values
Envs ==
  {e \in UNION {[S -> AllEnvValues] : S \in SUBSET EnvNames} :
     \A n \in DOMAIN e : e[n] \in EnvValues(n)}

SourceIds == {"s1", "s2"}

NoFields == [sourceId |-> "", filePath |-> "", sourceType |-> "",
             session_id |-> "", message |-> "", user_id |-> ""]

\* request bodies: no body, text that is not JSON, the JSON value null, a JSON object
\* ("" stands for a field that is absent or falsy)
NonObjectBodies == {[kind |-> k, json |-> NoFields] : k \in {"none", "malformed", "null"}}
ObjectBodiesA ==
  {[kind |-> "object", json |-> [NoFields EXCEPT !.sourceId = i, !.filePath = f, !.sourceType = t]] :
     i \in SourceIds \cup {""}, f \in {"", "doc.pdf"}, t \in {"", "pdf"}}
ObjectBodiesB ==
  {[kind |-> "object", json |-> [NoFields EXCEPT !.session_id = s, !.message = m, !.user_id = "u1"]] :
     s \in {"", "n1"}, m \in {"", "hi"}}

Requests(h) ==
  {[method |-> "OPTIONS", body |-> [kind |-> "none", json |-> NoFields]]}
  \cup {[method |-> "POST", body |-> b] :
          b \in NonObjectBodies \cup (IF h = "A" THEN ObjectBodiesA ELSE ObjectBodiesB)}

NoFetch == [threw |-> FALSE, message |-> <<>>, status |-> 0, statusText |-> "",
            bodyKind |-> "none", raw |-> <<>>, used |-> FALSE]

\* what fetch() can produce: a rejection, or a Response
FetchOutcomes ==
  { [NoFetch EXCEPT !.threw = TRUE, !.message = <<"error sending request">>],
    [NoFetch EXCEPT !.status = 503, !.statusText = "Service Unavailable",
                    !.bodyKind = "text", !.raw = <<"unavailable">>],
    [NoFetch EXCEPT !.status = 200, !.statusText = "OK",
                    !.bodyKind = "json", !.raw = <<"{\"ok\":true}">>],
    [NoFetch EXCEPT !.status = 200, !.statusText = "OK",
                    !.bodyKind = "text", !.raw = <<"done">>],
    [NoFetch EXCEPT !.status = 204, !.statusText = "No Content"] }

\* Response.ok
Ok(r) == r.status \in 200..299

NoData == [value |-> <<>>, message |-> <<>>, response |-> <<>>]

\* a Response to the caller; json is FALSE for the preflight reply only
NoResponse == [status |-> 0, json |-> TRUE, error |-> <<>>, details |-> <<>>,
               webhookUrl |-> <<>>, upstreamStatus |-> 0, statusText |-> "",
               success |-> FALSE, message |-> <<>>, result |-> NoData, hasAuth |-> FALSE]

NoError == [origin |-> "none", message |-> <<>>]

RequiredFieldsError == <<"sourceId", ", ", "filePath", ", and ", "sourceType", " are required">>
InternalErrorMessage == <<"Internal server error during document processing">>
SyntaxErrorMessage == <<"Unexpected token in JSON">>
DestructureErrorMessage == <<"Cannot destructure property of null">>
BodyUnusableMessage == <<"Body already consumed.">>
CreateClientMessage == <<"supabaseUrl is required.">>

----------------------------------------------------------------------------
(* Bodies: json() and text() read the stream, clone() needs it unread *)

\* a body that has a stream is disturbed by reading it; a null body is not
Reads(kind) == kind # "none"

\* JSON.parse of the body text succeeds
ParsesAsJsonAnyText(kind) == kind # "none"

ParsesAsJson(kind) == kind \in {"json", "null", "object"}

\* Request.clone() throws a TypeError on a disturbed body
CloneThrowsNever(used) == FALSE

CloneThrows(used) == used

----------------------------------------------------------------------------
(* where an exception thrown in a region of the handler lands *)

HandlerForNoInnerTry(region) ==
  CASE region = "try" -> "catch"
    [] OTHER -> "escaped"

HandlerFor(region) ==
  CASE region = "try" -> "catch"
    [] region = "recovery" -> "reply500"
    [] OTHER -> "escaped"

----------------------------------------------------------------------------
(* updateSourceStatus *)

\* createClient rejects an empty URL or key
CreateClientThrows(e) ==
  Falsy(e, "SUPABASE_URL") \/ Falsy(e, "SUPABASE_SERVICE_ROLE_KEY")

\* the row after .update(updateData): metadata only changes when a message is given
UpdatedRow(row, status, msg) ==
  [processing_status |-> status,
   metadata |-> IF msg # <<>> THEN msg ELSE row.metadata]

\* .from('sources').update(updateData).eq('id', sourceId)
UpdateSourcesAnyRow(st, sourceId, status, msg) ==
  [id \in DOMAIN st |-> UpdatedRow(st[id], status, msg)]

UpdateSources(st, sourceId, status, msg) ==
  [id \in DOMAIN st |-> IF id = sourceId THEN UpdatedRow(st[id], status, msg) ELSE st[id]]

----------------------------------------------------------------------------
(* Messages built by the handlers *)

MissingWebhookMessageA ==
  <<"Document processing webhook URL not configured. Please set ",
    "DOCUMENT_PROCESSING_WEBHOOK_URL", " in Supabase Edge Function secrets.">>

InvalidWebhookMessageA(url) ==
  <<"Invalid webhook URL format: ">> \o url
    \o <<". Please ensure the URL includes the protocol (https://) and is properly formatted.">>

ConnectMessageA(url) ==
  <<"Failed to connect to webhook URL: ">> \o url
    \o <<". Please verify the URL is correct and accessible.">>

UpstreamMessageA(r) ==
  <<"Webhook returned ", ToString(r.status), " ", r.statusText, ": ">> \o r.raw

MissingVariableMessageB(name) ==
  <<name, " environment variable not set. Please configure this secret in Supabase Edge Functions.">>

InvalidWebhookMessageB(url) ==
  <<"Invalid ", "NOTEBOOK_CHAT_URL", " format: ">> \o url
    \o <<". Please ensure the URL includes the protocol (https://) and is properly formatted.">>

ConnectMessageB(url, r) ==
  <<"Failed to connect to webhook URL: ">> \o url \o <<". Network error: ">> \o r.message

UpstreamMessageB(r) ==
  <<"Webhook responded with status: ", ToString(r.status), " ", r.statusText, ". Response: ">> \o r.raw

DefaultErrorB == <<"Failed to send message to webhook">>

\* the outbound request of process-document
PayloadA(e, f) ==
  [source_id |-> f.sourceId,
   file_url |-> Interp(e, "SUPABASE_URL") \o <<"/storage/v1/object/public/sources/", f.filePath>>,
   file_path |-> f.filePath,
   source_type |-> f.sourceType,
   callback_url |-> Interp(e, "SUPABASE_URL") \o <<"/functions/v1/process-document-callback">>]

\* the outbound request of send-chat-message (the timestamp is left out)
PayloadB(f) ==
  [session_id |-> f.session_id, message |-> f.message, user_id |-> f.user_id]

----------------------------------------------------------------------------
(* The state machine *)

Init ==
  /\ env \in Envs
  /\ store = [id \in SourceIds |-> [processing_status |-> "processing", metadata |-> <<>>]]
  /\ pc = "idle"
  /\ handler = "A"
  /\ req = [method |-> "OPTIONS", body |-> [kind |-> "none", json |-> NoFields]]
  /\ bodyUsed = FALSE
  /\ fields = NoFields
  /\ webhookUrl = <<>>
  /\ fetchResult = NoFetch
  /\ errorMessage = <<>>
  /\ pending = NoResponse
  /\ error = NoError
  /\ path = "none"
  /\ calls = <<>>
  /\ attempts = <<>>
  /\ writes = <<>>
  /\ response = <<>>

\* return a Response to the caller
Respond(r) ==
  /\ response' = Append(response, r)
  /\ pc' = "done"

\* throw inside a region of the handler
Throw(region, origin, msg) ==
  /\ error' = [origin |-> origin, message |-> msg]
  /\ pc' = HandlerFor(region)

\* the runtime calls the handler with a new request
Receive ==
  /\ pc \in {"idle", "done"}
  /\ \E h \in {"A", "B"} : \E r \in Requests(h) :
       /\ handler' = h
       /\ req' = r
  /\ pc' = "start"
  /\ bodyUsed' = FALSE
  /\ fields' = NoFields
  /\ webhookUrl' = <<>>
  /\ fetchResult' = NoFetch
  /\ errorMessage' = <<>>
  /\ pending' = NoResponse
  /\ error' = NoError
  /\ path' = "none"
  /\ calls' = <<>>
  /\ attempts' = <<>>
  /\ writes' = <<>>
  /\ response' = <<>>
  /\ UNCHANGED <<env, store>>

\* if (req.method === 'OPTIONS') return new Response(...)
Options ==
  /\ pc = "start"
  /\ req.method = "OPTIONS"
  /\ path' = "preflight"
  /\ Respond([NoResponse EXCEPT !.status = 200, !.json = FALSE,
                                !.message = IF handler = "A" THEN <<"ok">> ELSE <<>>])
  /\ UNCHANGED <<env, store, handler, req, bodyUsed, fields, webhookUrl, fetchResult,
                 errorMessage, pending, error, calls, attempts, writes>>

\* const { ... } = await req.json()     (both handlers)
ParseBody ==
  /\ pc = "start"
  /\ req.method # "OPTIONS"
  /\ bodyUsed' = Reads(req.body.kind)
  /\ IF ~ParsesAsJson(req.body.kind)
       THEN Throw("try", "body", SyntaxErrorMessage) /\ UNCHANGED fields
     ELSE IF req.body.kind = "null"
       THEN Throw("try", "body", DestructureErrorMessage) /\ UNCHANGED fields
     ELSE /\ fields' = req.body.json
          /\ pc' = IF handler = "A" THEN "validate" ELSE "config"
          /\ UNCHANGED error
  /\ UNCHANGED <<env, store, handler, req, webhookUrl, fetchResult, errorMessage,
                 pending, path, calls, attempts, writes, response>>

\* process-document: if (!sourceId || !filePath || !sourceType) return 400
RequiredPresentSourceIdOnly(f) == f.sourceId # ""

RequiredPresent(f) == f.sourceId # "" /\ f.filePath # "" /\ f.sourceType # ""

A_Validate ==
  /\ pc = "validate"
  /\ handler = "A"
  /\ IF ~RequiredPresent(fields)
       THEN /\ path' = "missing_fields"
            /\ Respond([NoResponse EXCEPT !.status = 400, !.error = RequiredFieldsError])
       ELSE /\ pc' = "config"
            /\ UNCHANGED <<path, response>>
  /\ UNCHANGED <<env, store, handler, req, bodyUsed, fields, webhookUrl, fetchResult,
                 errorMessage, pending, error, calls, attempts, writes>>

\* a failure path of process-document up to its await updateSourceStatus(...):
\* the message is built, the Response is the one returned after the write
FailA(p, msg, r) ==
  /\ path' = p
  /\ errorMessage' = msg
  /\ pending' = r
  /\ pc' = "write"

\* process-document: the webhook URL is read and checked
A_CheckConfig ==
  /\ pc = "config"
  /\ handler = "A"
  /\ IF Falsy(env, "DOCUMENT_PROCESSING_WEBHOOK_URL")
       THEN /\ FailA("config_missing", MissingWebhookMessageA,
                     [NoResponse EXCEPT !.status = 500, !.error = MissingWebhookMessageA])
            /\ UNCHANGED webhookUrl
     ELSE IF ~isValidUrl(env["DOCUMENT_PROCESSING_WEBHOOK_URL"])
       THEN /\ webhookUrl' = env["DOCUMENT_PROCESSING_WEBHOOK_URL"]
            /\ FailA("config_invalid", InvalidWebhookMessageA(webhookUrl'),
                     [NoResponse EXCEPT !.status = 500, !.error = InvalidWebhookMessageA(webhookUrl')])
     ELSE /\ webhookUrl' = env["DOCUMENT_PROCESSING_WEBHOOK_URL"]
          /\ pc' = "fetch"
          /\ UNCHANGED <<path, errorMessage, pending>>
  /\ UNCHANGED <<env, store, handler, req, bodyUsed, fields, fetchResult, error,
                 calls, attempts, writes, response>>

\* process-document: response = await fetch(webhookUrl, ...), with its catch
A_Fetch ==
  /\ pc = "fetch"
  /\ handler = "A"
  /\ calls' = Append(calls, [url |-> webhookUrl,
                             authorization |-> IF Falsy(env, "NOTEBOOK_GENERATION_AUTH")
                                               THEN <<>> ELSE env["NOTEBOOK_GENERATION_AUTH"],
                             payload |-> PayloadA(env, fields)])
  /\ \E r \in FetchOutcomes :
       /\ fetchResult' = r
       /\ IF r.threw
            THEN FailA("transport", ConnectMessageA(webhookUrl),
                       [NoResponse EXCEPT !.status = 500, !.error = <<"Document processing failed">>,
                                          !.details = ConnectMessageA(webhookUrl),
                                          !.webhookUrl = webhookUrl])
            ELSE /\ pc' = "classify"
                 /\ UNCHANGED <<path, errorMessage, pending>>
  /\ UNCHANGED <<env, store, handler, req, bodyUsed, fields, webhookUrl, error,
                 attempts, writes, response>>

\* process-document: if (!response.ok) { errorText = await response.text(); ... }
A_Classify ==
  /\ pc = "classify"
  /\ handler = "A"
  /\ IF ~Ok(fetchResult)
       THEN /\ fetchResult' = [fetchResult EXCEPT !.used = Reads(fetchResult.bodyKind)]
            /\ FailA("upstream", UpstreamMessageA(fetchResult),
                     [NoResponse EXCEPT !.status = 500, !.error = <<"Document processing failed">>,
                                        !.details = UpstreamMessageA(fetchResult),
                                        !.webhookUrl = webhookUrl,
                                        !.upstreamStatus = fetchResult.status,
                                        !.statusText = fetchResult.statusText])
       ELSE /\ pc' = "result"
            /\ UNCHANGED <<fetchResult, path, errorMessage, pending>>
  /\ UNCHANGED <<env, store, handler, req, bodyUsed, fields, webhookUrl, error,
                 calls, attempts, writes, response>>

\* process-document: await updateSourceStatus(sourceId, 'failed', errorMessage)
\* on a failure path, then the path's return
FailureStatus == "failed"

A_UpdateStatus ==
  /\ pc = "write"
  /\ handler = "A"
  /\ attempts' = Append(attempts, [id |-> fields.sourceId, status |-> FailureStatus,
                                   message |-> errorMessage])
  /\ IF CreateClientThrows(env)
       THEN /\ Throw("try", "write", CreateClientMessage)
            /\ UNCHANGED <<store, writes, response>>
       ELSE /\ store' = UpdateSources(store, fields.sourceId, FailureStatus, errorMessage)
            /\ writes' = Append(writes, [id |-> fields.sourceId, status |-> FailureStatus,
                                         message |-> errorMessage])
            /\ Respond(pending)
            /\ UNCHANGED error
  /\ UNCHANGED <<env, handler, req, bodyUsed, fields, webhookUrl, fetchResult,
                 errorMessage, pending, path, calls>>

\* process-document: result = await response.json(), then the 200 reply
A_Result ==
  /\ pc = "result"
  /\ handler = "A"
  /\ fetchResult' = [fetchResult EXCEPT !.used = Reads(fetchResult.bodyKind)]
  /\ IF fetchResult.bodyKind # "json"
       THEN /\ Throw("try", "result", SyntaxErrorMessage)
            /\ UNCHANGED <<path, response>>
       ELSE /\ path' = "success"
            /\ Respond([NoResponse EXCEPT !.status = 200, !.success = TRUE,
                                          !.message = <<"Document processing initiated">>,
                                          !.result = [NoData EXCEPT !.value = fetchResult.raw]])
            /\ UNCHANGED error
  /\ UNCHANGED <<env, store, handler, req, bodyUsed, fields, webhookUrl,
                 errorMessage, pending, calls, attempts, writes>>

\* process-document, top-level catch: the inner try that re-reads the request
\*   const { sourceId } = await req.clone().json()
\*   if (sourceId) await updateSourceStatus(sourceId, 'failed', '...')
\* Whatever it throws is caught by the inner catch and logged.
A_Recover ==
  /\ pc = "catch"
  /\ handler = "A"
  /\ IF CloneThrows(bodyUsed) \/ ~ParsesAsJson(req.body.kind) \/ req.body.kind = "null"
       THEN /\ pc' = HandlerFor("recovery")
            /\ UNCHANGED <<store, attempts, writes>>
     ELSE IF req.body.json.sourceId = ""
       THEN /\ pc' = "reply500"
            /\ UNCHANGED <<store, attempts, writes>>
     ELSE /\ attempts' = Append(attempts, [id |-> req.body.json.sourceId,
                                           status |-> FailureStatus,
                                           message |-> InternalErrorMessage])
          /\ IF CreateClientThrows(env)
               THEN /\ pc' = HandlerFor("recovery")
                    /\ UNCHANGED <<store, writes>>
               ELSE /\ pc' = "reply500"
                    /\ store' = UpdateSources(store, req.body.json.sourceId,
                                              FailureStatus, InternalErrorMessage)
                    /\ writes' = Append(writes, [id |-> req.body.json.sourceId,
                                                 status |-> FailureStatus,
                                                 message |-> InternalErrorMessage])
  /\ UNCHANGED <<env, handler, req, bodyUsed, fields, webhookUrl, fetchResult,
                 errorMessage, pending, error, path, calls, response>>

\* process-document, top-level catch: the generic 500
A_Reply500 ==
  /\ pc = "reply500"
  /\ handler = "A"
  /\ Respond([NoResponse EXCEPT !.status = 500, !.error = <<"Internal server error">>,
                                !.details = error.message])
  /\ UNCHANGED <<env, store, handler, req, bodyUsed, fields, webhookUrl, fetchResult,
                 errorMessage, pending, error, path, calls, attempts, writes>>

\* send-chat-message: the two variables are read and checked, each failure is thrown
B_CheckConfig ==
  /\ pc = "config"
  /\ handler = "B"
  /\ IF Falsy(env, "NOTEBOOK_CHAT_URL")
       THEN /\ path' = "config_missing"
            /\ Throw("try", "config", MissingVariableMessageB("NOTEBOOK_CHAT_URL"))
            /\ UNCHANGED webhookUrl
     ELSE IF Falsy(env, "NOTEBOOK_GENERATION_AUTH")
       THEN /\ path' = "config_missing"
            /\ Throw("try", "config", MissingVariableMessageB("NOTEBOOK_GENERATION_AUTH"))
            /\ webhookUrl' = env["NOTEBOOK_CHAT_URL"]
     ELSE IF ~isValidUrl(env["NOTEBOOK_CHAT_URL"])
       THEN /\ path' = "config_invalid"
            /\ Throw("try", "config", InvalidWebhookMessageB(env["NOTEBOOK_CHAT_URL"]))
            /\ webhookUrl' = env["NOTEBOOK_CHAT_URL"]
     ELSE /\ webhookUrl' = env["NOTEBOOK_CHAT_URL"]
          /\ pc' = "fetch"
          /\ UNCHANGED <<path, error>>
  /\ UNCHANGED <<env, store, handler, req, bodyUsed, fields, fetchResult, errorMessage,
                 pending, calls, attempts, writes, response>>

\* send-chat-message: webhookResponse = await fetch(webhookUrl, ...), with its catch
B_Fetch ==
  /\ pc = "fetch"
  /\ handler = "B"
  /\ calls' = Append(calls, [url |-> webhookUrl,
                             authorization |-> env["NOTEBOOK_GENERATION_AUTH"],
                             payload |-> PayloadB(fields)])
  /\ \E r \in FetchOutcomes :
       /\ fetchResult' = r
       /\ IF r.threw
            THEN /\ path' = "transport"
                 /\ Throw("try", "fetch", ConnectMessageB(webhookUrl, r))
            ELSE /\ pc' = "classify"
                 /\ UNCHANGED <<path, error>>
  /\ UNCHANGED <<env, store, handler, req, bodyUsed, fields, webhookUrl, errorMessage,
                 pending, attempts, writes, response>>

\* send-chat-message: if (!webhookResponse.ok) { errorText = await text(); throw }
B_Classify ==
  /\ pc = "classify"
  /\ handler = "B"
  /\ IF ~Ok(fetchResult)
       THEN /\ fetchResult' = [fetchResult EXCEPT !.used = Reads(fetchResult.bodyKind)]
            /\ path' = "upstream"
            /\ Throw("try", "upstream", UpstreamMessageB(fetchResult))
       ELSE /\ pc' = "result"
            /\ UNCHANGED <<fetchResult, path, error>>
  /\ UNCHANGED <<env, store, handler, req, bodyUsed, fields, webhookUrl, errorMessage,
                 pending, calls, attempts, writes, response>>

\* Response.text() rejects when the body was already read
TextThrows(r) == r.used

\* send-chat-message:
\*   try { webhookData = await webhookResponse.json() }
\*   catch (parseError) { responseText = await webhookResponse.text(); webhookData = {...} }
\* then the 200 reply.  The inner catch block is itself inside the outer try.
B_Result ==
  /\ pc = "result"
  /\ handler = "B"
  /\ LET read == [fetchResult EXCEPT !.used = Reads(fetchResult.bodyKind)] IN
     /\ fetchResult' = read
     /\ IF fetchResult.bodyKind = "json"
          THEN /\ path' = "success"
               /\ Respond([NoResponse EXCEPT !.status = 200, !.success = TRUE,
                                             !.result = [NoData EXCEPT !.value = fetchResult.raw]])
               /\ UNCHANGED error
        ELSE IF TextThrows(read)
          THEN /\ path' = "fallback"
               /\ Throw("try", "text", BodyUnusableMessage)
               /\ UNCHANGED response
        ELSE /\ path' = "fallback"
             /\ Respond([NoResponse EXCEPT !.status = 200, !.success = TRUE,
                           !.result = [NoData EXCEPT !.message = <<"Webhook processed successfully">>,
                                                     !.response = fetchResult.raw]])
             /\ UNCHANGED error
  /\ UNCHANGED <<env, store, handler, req, bodyUsed, fields, webhookUrl, errorMessage,
                 pending, calls, attempts, writes>>

\* send-chat-message, top-level catch: the 500 with the thrown message
B_Catch ==
  /\ pc = "catch"
  /\ handler = "B"
  /\ Respond([NoResponse EXCEPT !.status = 500,
                !.error = IF error.message # <<>> THEN error.message ELSE DefaultErrorB,
                !.webhookUrl = IF "NOTEBOOK_CHAT_URL" \in DOMAIN env
                               THEN env["NOTEBOOK_CHAT_URL"] ELSE <<>>,
                !.hasAuth = ~Falsy(env, "NOTEBOOK_GENERATION_AUTH")])
  /\ UNCHANGED <<env, store, handler, req, bodyUsed, fields, webhookUrl, fetchResult,
                 errorMessage, pending, error, path, calls, attempts, writes>>

Next ==
  \/ Receive
  \/ Options
  \/ ParseBody
  \/ A_Validate
  \/ A_CheckConfig
  \/ A_Fetch
  \/ A_Classify
  \/ A_UpdateStatus
  \/ A_Result
  \/ A_Recover
  \/ A_Reply500
  \/ B_CheckConfig
  \/ B_Fetch
  \/ B_Classify
  \/ B_Result
  \/ B_Catch

Spec == Init /\ [][Next]_vars

\* a started invocation runs on: every await of the handler settles
Step ==
  \/ Options \/ ParseBody \/ A_Validate \/ A_CheckConfig \/ A_Fetch \/ A_Classify
  \/ A_UpdateStatus \/ A_Result \/ A_Recover \/ A_Reply500
  \/ B_CheckConfig \/ B_Fetch \/ B_Classify \/ B_Result \/ B_Catch

FairSpec == Spec /\ WF_vars(Step)

TypeOK ==
  /\ pc \in {"idle", "start", "validate", "config", "fetch", "classify", "write",
             "result", "catch", "reply500", "done", "escaped"}
  /\ handler \in {"A", "B"}
  /\ Len(response) <= 1

----------------------------------------------------------------------------
(* Vocabulary of the properties, stated on the request, the environment    *)
(* and the replies rather than through the handlers' own tests             *)

Replied == pc = "done" /\ Len(response) = 1
Reply == response[1]

PostA == handler = "A" /\ req.method = "POST" /\ pc # "idle"
PostB == handler = "B" /\ req.method = "POST" /\ pc # "idle"

\* the request body is a JSON object in which every required field is truthy
AllFieldsGiven ==
  /\ req.body.kind = "object"
  /\ req.body.json.sourceId \in SourceIds
  /\ req.body.json.filePath = "doc.pdf"
  /\ req.body.json.sourceType = "pdf"

\* the request body is a JSON object in which a required field is absent or falsy
SomeFieldMissing ==
  /\ req.body.kind = "object"
  /\ \/ req.body.json.sourceId = ""
     \/ req.body.json.filePath = ""
     \/ req.body.json.sourceType = ""

Unset(name) == name \notin DOMAIN env \/ env[name] = <<>>
WellFormed(name) == name \in DOMAIN env /\ env[name] = ValidUrl
StoreUsable == ~Unset("SUPABASE_URL") /\ ~Unset("SUPABASE_SERVICE_ROLE_KEY")

FailurePathsA == {"config_missing", "config_invalid", "transport", "upstream"}

InternalReply ==
  [NoResponse EXCEPT !.status = 500, !.error = <<"Internal server error">>,
                     !.details = error.message]

C1_WitnessWritten ==
  /\ PostA /\ Replied /\ path = "upstream" /\ Len(writes) = 1

\* C2 (as claimed): when updateSourceStatus throws on a failure path of
\* process-document, the reply is still the reply of that path.
C2_WriteFailureKeepsReply ==
  (PostA /\ pc = "done" /\ path \in FailurePathsA /\ error.origin = "write")
    => response = <<pending>>

\* C3 (as claimed): when the webhook of send-chat-message answers with a
\* success status and a body that is not JSON, the reply is a 200 with
\* success and the fallback object carrying the raw text.
C3_NonJsonFallback ==
  (PostB /\ pc = "done" /\ calls # <<>> /\ ~fetchResult.threw
     /\ fetchResult.status \in 200..299 /\ fetchResult.bodyKind # "json")
    => /\ Len(response) = 1
       /\ Reply.status = 200
       /\ Reply.success
       /\ Reply.result.response = fetchResult.raw

\* C4: a process-document request whose JSON body lacks one of sourceId,
\* filePath, sourceType gets a 400 naming the three fields; no outbound call
\* and no status write is made, whatever the environment holds.
C4_MissingFields ==
  (PostA /\ SomeFieldMissing) =>
    /\ calls = <<>>
    /\ attempts = <<>>
    /\ writes = <<>>
    /\ pc \notin {"fetch", "classify", "write", "result", "catch", "reply500", "escaped"}
    /\ pc = "done" =>
         /\ Len(response) = 1
         /\ Reply.status = 400
         /\ Contains(Reply.error, <<"sourceId">>)
         /\ Contains(Reply.error, <<"filePath">>)
         /\ Contains(Reply.error, <<"sourceType">>)

\* the 400 was sent for a request that has a sourceId but no filePath,
\* while the webhook URL is not configured
C4_Witness ==
  /\ PostA /\ Replied /\ Reply.status = 400
  /\ req.body.json.sourceId = "s1" /\ req.body.json.filePath = ""
  /\ Unset("DOCUMENT_PROCESSING_WEBHOOK_URL")

\* C5 (as claimed): process-document answers 400 for a malformed body and
\* for a missing required field, 500 only for configuration errors, network
\* failures and upstream non-success responses, 200 only on success.
C5_StatusCodesAsClaimed ==
  (PostA /\ Replied) =>
    /\ (req.body.kind = "malformed" \/ SomeFieldMissing) => Reply.status = 400
    /\ Reply.status = 500 => path \in FailurePathsA
    /\ Reply.status = 200 => path = "success"

\* C5 (amended): 400 exactly when a required field is missing from a parsed
\* body; a body that cannot be read as a JSON object gets the generic 500;
\* 500 exactly for configuration errors, network failures, upstream
\* non-success responses and exceptions caught at the top level; 200 exactly
\* when the webhook answered a success status with a JSON body.
C5_StatusCodes ==
  (PostA /\ Replied) =>
    /\ Reply.status \in {200, 400, 500}
    /\ Reply.status = 400 <=> SomeFieldMissing
    /\ req.body.kind \in {"none", "malformed", "null"} => response = <<InternalReply>>
    /\ Reply.status = 500 <=> (path \in FailurePathsA \/ error.origin # "none")
    /\ Reply.status = 200 <=>
         /\ AllFieldsGiven /\ WellFormed("DOCUMENT_PROCESSING_WEBHOOK_URL")
         /\ calls # <<>> /\ ~fetchResult.threw
         /\ fetchResult.status \in 200..299 /\ fetchResult.bodyKind = "json"

\* a malformed body was answered with the generic 500
C5_Witness ==
  /\ PostA /\ Replied /\ req.body.kind = "malformed" /\ Reply.status = 500

\* C6 (as claimed): with the webhook URL missing both handlers answer 500
\* without an outbound call; process-document (all fields given) moves the
\* row to 'failed' exactly once with a message naming
\* DOCUMENT_PROCESSING_WEBHOOK_URL; the error of send-chat-message names
\* NOTEBOOK_CHAT_URL.
C6_MissingWebhookAsClaimed ==
  /\ (PostA /\ pc = "done" /\ AllFieldsGiven /\ Unset("DOCUMENT_PROCESSING_WEBHOOK_URL")) =>
       /\ Len(response) = 1 /\ Reply.status = 500 /\ calls = <<>>
       /\ Len(writes) = 1
       /\ writes[1].status = "failed"
       /\ Contains(writes[1].message, <<"DOCUMENT_PROCESSING_WEBHOOK_URL">>)
  /\ (PostB /\ pc = "done" /\ Unset("NOTEBOOK_CHAT_URL")) =>
       /\ Len(response) = 1 /\ Reply.status = 500 /\ calls = <<>>
       /\ Contains(Reply.error, <<"NOTEBOOK_CHAT_URL">>)

\* C6 (amended): with the webhook URL missing both handlers answer 500
\* without an outbound call; process-document (all fields given) calls the
\* status update exactly once, for the request's sourceId with 'failed' and
\* a message naming DOCUMENT_PROCESSING_WEBHOOK_URL, and the row moves to
\* 'failed' exactly once unless that call throws (then no row is written);
\* send-chat-message, given a body that parses to a JSON object, names
\* NOTEBOOK_CHAT_URL in its error, also when the auth token is missing.
C6_MissingWebhook ==
  /\ (PostA /\ AllFieldsGiven /\ Unset("DOCUMENT_PROCESSING_WEBHOOK_URL")) =>
       /\ calls = <<>>
       /\ Len(writes) <= 1
       /\ pc = "done" =>
            /\ Len(response) = 1 /\ Reply.status = 500
            /\ Len(attempts) = 1
            /\ attempts[1].id = req.body.json.sourceId
            /\ attempts[1].status = "failed"
            /\ Contains(attempts[1].message, <<"DOCUMENT_PROCESSING_WEBHOOK_URL">>)
            /\ IF StoreUsable
                 THEN /\ writes = attempts
                      /\ store[req.body.json.sourceId] =
                           [processing_status |-> "failed", metadata |-> attempts[1].message]
                      /\ Contains(Reply.error, <<"DOCUMENT_PROCESSING_WEBHOOK_URL">>)
                 ELSE writes = <<>>
  /\ (PostB /\ Unset("NOTEBOOK_CHAT_URL")) =>
       /\ calls = <<>>
       /\ pc = "done" =>
            /\ Len(response) = 1 /\ Reply.status = 500
            /\ req.body.kind = "object" => Contains(Reply.error, <<"NOTEBOOK_CHAT_URL">>)

\* process-document replied with the row written, the URL being the empty string
C6_Witness ==
  /\ PostA /\ Replied /\ AllFieldsGiven /\ Len(writes) = 1
  /\ "DOCUMENT_PROCESSING_WEBHOOK_URL" \in DOMAIN env
  /\ env["DOCUMENT_PROCESSING_WEBHOOK_URL"] = <<>>

\* send-chat-message replied with both the URL and the auth token unset
C6_WitnessB ==
  /\ PostB /\ Replied /\ req.body.kind = "object"
  /\ "NOTEBOOK_CHAT_URL" \notin DOMAIN env
  /\ "NOTEBOOK_GENERATION_AUTH" \notin DOMAIN env

\* C7 (as claimed): when an exception reaches the top-level catch of
\* process-document and the request carries a sourceId, the catch recovers
\* it from the request and marks the row 'failed' with the generic message
\* (the store being usable); the caller gets the generic 500.
C7_RecoveryMarksFailed ==
  (PostA /\ pc = "done" /\ error.origin # "none"
     /\ req.body.kind = "object" /\ req.body.json.sourceId \in SourceIds /\ StoreUsable)
    => /\ response = <<InternalReply>>
       /\ store[req.body.json.sourceId] =
            [processing_status |-> "failed", metadata |-> InternalErrorMessage]

\* C8: an invocation makes at most one outbound call; a call that throws or
\* returns a non-success status ends the invocation with a 500; a call is
\* made only after the request fields (process-document) and every
\* configuration check have passed.
C8_SingleOutboundCall ==
  /\ Len(calls) <= 1
  /\ calls # <<>> =>
       /\ req.method = "POST" /\ req.body.kind = "object"
       /\ handler = "A" => AllFieldsGiven /\ WellFormed("DOCUMENT_PROCESSING_WEBHOOK_URL")
                           /\ calls[1].url = env["DOCUMENT_PROCESSING_WEBHOOK_URL"]
       /\ handler = "B" => WellFormed("NOTEBOOK_CHAT_URL") /\ ~Unset("NOTEBOOK_GENERATION_AUTH")
                           /\ calls[1].url = env["NOTEBOOK_CHAT_URL"]
       /\ (fetchResult.threw \/ fetchResult.status \notin 200..299) =>
            /\ pc \notin {"fetch", "result", "escaped"}
            /\ pc = "done" => Len(response) = 1 /\ Reply.status = 500

\* the single call threw and the 500 went out
C8_Witness ==
  /\ Replied /\ Len(calls) = 1 /\ fetchResult.threw /\ Reply.status = 500 /\ handler = "B"

\* C9: a successful outbound call with a JSON body makes process-document
\* answer 200 {success, 'Document processing initiated', result} without any
\* status write in that invocation; every change of a row, in any
\* invocation, sets it to 'failed' and is made by process-document to the
\* row of that request's sourceId.
C9_SuccessWritesNothing ==
  /\ [](( PostA /\ pc = "done" /\ calls # <<>> /\ ~fetchResult.threw
          /\ fetchResult.status \in 200..299 /\ fetchResult.bodyKind = "json")
        => /\ response = <<[NoResponse EXCEPT !.status = 200, !.success = TRUE,
                               !.message = <<"Document processing initiated">>,
                               !.result = [NoData EXCEPT !.value = fetchResult.raw]]>>
           /\ attempts = <<>>
           /\ writes = <<>>)
  /\ [][ /\ store' # store => Len(writes') = Len(writes) + 1
         /\ \A id \in SourceIds :
              store'[id] # store[id] =>
                /\ store'[id].processing_status = "failed"
                /\ handler = "A"
                /\ id = req.body.json.sourceId ]_vars

\* a success reply went out while the row of an earlier request stays failed
C9_Witness ==
  /\ PostA /\ Replied /\ path = "success" /\ req.body.json.sourceId = "s1"
  /\ store["s2"].processing_status = "failed"
  /\ store["s1"].processing_status = "processing"

\* C10: every invocation that is not a preflight ends with exactly one JSON
\* reply, whatever fails; an error is answered with 400 or 500 and no
\* exception leaves the handler.
C10_AlwaysOneJsonReply ==
  /\ [](/\ pc # "escaped"
        /\ Len(response) <= 1
        /\ pc # "done" => response = <<>>
        /\ (pc = "done" /\ req.method = "POST") =>
             /\ Len(response) = 1
             /\ Reply.json
             /\ Reply.status \in {200, 400, 500}
             /\ (error.origin # "none" \/ path \notin {"success", "fallback"})
                  => Reply.status \in {400, 500})
  /\ (pc = "start") ~> (pc = "done")

\* the recovery step of process-document threw and the 500 still went out
C10_Witness ==
  /\ PostA /\ Replied /\ error.origin = "write" /\ Reply.status = 500 /\ bodyUsed

====
